---------------------------- MODULE Spec2Model ----------------------------
(***************************************************************************)
(* A model of IP resolver (ipre.go): main's flow from the parsed flags to  *)
(* the exit, query's fan-out of one goroutine per name server joined by a  *)
(* sync.WaitGroup, the aggregation allIP, the three output modes and the   *)
(* error categorisation errToString.                                       *)
(*                                                                         *)
(* Go strings are TLA+ strings; Len, \o and SubSeq act on them character   *)
(* by character.  A Go error is <<>> (nil) or <<message>>.  A nil slice    *)
(* and an empty slice are both <<>>.                                       *)
(***************************************************************************)
EXTENDS Integers, Sequences, FiniteSets, TLC

VARIABLES
    flags,      \* the values flag.Parse left in main's flag variables
    pc,         \* main's position
    format,     \* main's local format (after defaulting)
    conf,       \* main's local conf: the loaded name server list
    confpath,   \* main's local confpath
    exitCode,   \* -1 while the process runs, then the exit status
    stdout,     \* the lines written to standard output
    stderr,     \* the lines written to standard error
    call,       \* query's parameters and position: dns, domain, net, j, state
    wg,         \* the WaitGroup's counter
    tpc,        \* per goroutine: "unspawned", "running", "stored", "done"
    answers,    \* query's local slice answers
    exchanges,  \* the calls of client.Exchange made: goroutine n, outcome o
    result,     \* what query returned to its caller (<<>> before it returns)
    err,        \* errToString's argument, when it is called on its own
    frags,      \* the fragments err's message was built from
    label       \* errToString's result, <<>> before the call

vars == <<flags, pc, format, conf, confpath, exitCode, stdout, stderr,
          call, wg, tpc, answers, exchanges, result, err, frags, label>>

mainVars  == <<flags, pc, format, conf, confpath, exitCode, stdout, stderr>>
queryVars == <<call, wg, tpc, answers, exchanges, result>>
errVars   == <<err, frags, label>>

(***************************************************************************)
(* Bounds of the model.                                                    *)
(***************************************************************************)
MaxServers == 2     \* the longest configured name server list
MaxFrags == 2       \* the most fragments an error message is built from

(***************************************************************************)
(* Strings.                                                                *)
(***************************************************************************)
\* The printable ASCII characters in code order, from 32 (space) to 126; a tab
\* holds the place of the backquote (96), which a TLA+ string cannot contain.
Ascii == " !\"#$%&'()*+,-./0123456789:;<=>?@ABCDEFGHIJKLMNOPQRSTUVWXYZ[\\]^_\tabcdefghijklmnopqrstuvwxyz{|}~"

CharAt(s, i) == SubSeq(s, i, i)

\* The byte value of each character.
OrdTable ==
    [c \in { CharAt(Ascii, i) : i \in 1..Len(Ascii) } |->
        31 + (CHOOSE i \in 1..Len(Ascii) : CharAt(Ascii, i) = c)]

\* The byte value of a one-character string.
Ord(c) == OrdTable[c]

\* unicode.ToLower on one ASCII character.
LowerChar(c) ==
    LET o == Ord(c)
    IN  IF o >= 65 /\ o <= 90 THEN CharAt(Ascii, o + 32 - 31) ELSE c

\* strings.ToLower on an ASCII string: every character lowered, the string
\* being taken by halves.
RECURSIVE ToLower(_)
ToLower(s) ==
    IF Len(s) = 0 THEN ""
    ELSE IF Len(s) = 1 THEN LowerChar(s)
    ELSE ToLower(SubSeq(s, 1, Len(s) \div 2)) \o ToLower(SubSeq(s, Len(s) \div 2 + 1, Len(s)))

\* strings.Contains
Contains(s, substr) ==
    \E i \in 1..(Len(s) - Len(substr) + 1) : SubSeq(s, i, i + Len(substr) - 1) = substr

\* Go's < on strings: byte-wise lexicographic order.
RECURSIVE StrLess(_, _)
StrLess(a, b) ==
    IF Len(b) = 0 THEN FALSE
    ELSE IF Len(a) = 0 THEN TRUE
    ELSE IF CharAt(a, 1) = CharAt(b, 1)
         THEN StrLess(SubSeq(a, 2, Len(a)), SubSeq(b, 2, Len(b)))
         ELSE Ord(CharAt(a, 1)) < Ord(CharAt(b, 1))

\* strings.Repeat
RECURSIVE Repeat(_, _)
Repeat(s, n) ==
    IF n <= 0 THEN ""
    ELSE IF n = 1 THEN s
    ELSE Repeat(s, n \div 2) \o Repeat(s, n - n \div 2)

Spaces(n) == Repeat(" ", n)

\* fmt's %-<width>.<prec>s: cut to prec characters, then pad on the right to
\* width.  prec < 0 stands for no precision.
FmtLeftMut(s, width, prec) == s \o Spaces(width - Len(s))
FmtLeft(s, width, prec) ==
    LET t == IF prec >= 0 /\ Len(s) > prec THEN SubSeq(s, 1, prec) ELSE s
    IN  t \o Spaces(width - Len(t))

(***************************************************************************)
(* Errors.                                                                 *)
(***************************************************************************)
NilError == <<>>
NewError(msg) == <<msg>>
ErrorText(e) == e[1]

\* The closure f of errToString.
f(str, substr) == Contains(ToLower(str), substr)

\* Convert error message to a short form.
errToStringMut(e) ==
    IF e = NilError THEN ""
    ELSE LET s == ErrorText(e)
         IN  IF f(s, "no service is operating") THEN "NS invalid"
             ELSE IF f(s, "refused the network connection") THEN "Conn refused"
             ELSE IF f(s, "timeout") THEN "Timeout"
             ELSE IF f(s, "forcibly closed by the remote host") THEN "NS invalid"
             ELSE IF f(s, "no result") THEN "No result"
             ELSE "Connect error"
errToString(e) ==
    IF e = NilError THEN ""
    ELSE LET s == ErrorText(e)
         IN  IF f(s, "timeout") THEN "Timeout"
             ELSE IF f(s, "refused the network connection") THEN "Conn refused"
             ELSE IF f(s, "no service is operating") THEN "NS invalid"
             ELSE IF f(s, "forcibly closed by the remote host") THEN "NS invalid"
             ELSE IF f(s, "no result") THEN "No result"
             ELSE "Connect error"

(***************************************************************************)
(* errToString called on its own, on messages built from known fragments.  *)
(***************************************************************************)
\* Pieces of transport error text (those of errToString's comments, in
\* several spellings) and two pieces that hold none of its phrases.
Fragments ==
    << "ConnectEx tcp: i/o timeout",
       "WSARecv tcp 192.168.0.1:3586: I/O TIMEOUT",
       "ConnectEx tcp: The remote system refused the network connection.",
       "No service is operating at the destination network endpoint on the remote system.",
       "An existing connection was forcibly closed by the remote host.",
       "No result",
       "NO RESULT",
       "connect: no route to host",
       "time out" >>

RECURSIVE Join(_, _)
Join(fs, sep) ==
    IF fs = <<>> THEN ""
    ELSE IF Len(fs) = 1 THEN Fragments[fs[1]]
    ELSE Fragments[fs[1]] \o sep \o Join(Tail(fs), sep)

\* The message of a transport error built from the fragments fs.
Message(fs) == IF fs = <<>> THEN "dial tcp 8.8.8.8:53" ELSE "dial tcp 8.8.8.8:53: " \o Join(fs, ": ")

FragSeqs == UNION { [1..n -> 1..Len(Fragments)] : n \in 0..MaxFrags }

InitIdleMain ==
    /\ flags = <<>>
    /\ pc = "none"
    /\ format = ""
    /\ conf = <<>>
    /\ confpath = ""
    /\ exitCode = -1
    /\ stdout = <<>>
    /\ stderr = <<>>

InitIdleQuery ==
    /\ call = [state |-> "idle", dns |-> <<>>, domain |-> "", net |-> "", j |-> 0]
    /\ wg = 0
    /\ tpc = <<>>
    /\ answers = <<>>
    /\ exchanges = {}
    /\ result = <<>>

InitIdleErr ==
    /\ err = NilError
    /\ frags = <<>>
    /\ label = <<>>

InitErr ==
    /\ InitIdleMain
    /\ InitIdleQuery
    /\ \/ /\ frags \in FragSeqs
          /\ err = NewError(Message(frags))
       \/ /\ frags = <<>>
          /\ err = NilError
    /\ label = <<>>

\* A call of errToString(err).
ErrToStringCall ==
    /\ label = <<>>
    /\ label' = <<errToString(err)>>
    /\ UNCHANGED <<mainVars, queryVars, err, frags>>

NextErr == ErrToStringCall

SpecErr == InitErr /\ [][NextErr]_vars

(***************************************************************************)
(* The name servers, and what a server may answer.                         *)
(***************************************************************************)
DnsAddr(name, address) == [Name |-> name, Address |-> address]

\* Configured name servers: one with a name longer than a table cell, then
\* those of writeSample.
Pool ==
    << DnsAddr("Quad9-Secure-Resolver", "9.9.9.9"),
       DnsAddr("AliDNS", "223.5.5.5"),
       DnsAddr("114DNS", "114.114.114.114"),
       DnsAddr("Google", "8.8.8.8"),
       DnsAddr("OpenDNS", "208.67.222.222") >>

\* The name server lists a configuration file may hold.
Confs == { SubSeq(Pool, 1, n) : n \in 1..MaxServers }

\* The A records a server may return, as t.A.String() prints them; an IPv4
\* address prints in at most 15 characters.
AnswerLists ==
    { <<>>,
      <<"9.9.9.9">>,
      <<"10.0.0.10", "9.9.9.9">>,
      <<"10.0.0.1", "100.100.100.100", "10.0.0.1">> }

\* The errors client.Exchange may return.
ExchangeErrors ==
    { NewError("read udp 8.8.8.8:53: i/o timeout"),
      NewError("dial tcp 8.8.8.8:53: ConnectEx tcp: The remote system refused the network connection."),
      NewError("dns: bad rdata") }

\* What client.Exchange may come back with: the A records of r.Answer and err.
ExchangeOutcomes ==
    { [ip |-> l, err |-> NilError] : l \in AnswerLists }
        \cup { [ip |-> <<>>, err |-> e] : e \in ExchangeErrors }

(***************************************************************************)
(* ARecords and query.                                                     *)
(***************************************************************************)
NetValidMut(net) == TRUE
NetValid(net) == ~(net # "tcp" /\ net # "udp")

NetError == NewError("The Parameter 'net' should only be 'tcp' or 'udp'.")

\* ARecords' results (result, error) when the exchange, if it gets to one,
\* comes back with outcome o; exchanged tells whether client.Exchange ran.
ARecords(net, o) ==
    IF ~NetValid(net)
    THEN [ip |-> <<>>, err |-> NetError, exchanged |-> FALSE]
    ELSE IF o.err # NilError
    THEN [ip |-> <<>>, err |-> o.err, exchanged |-> TRUE]
    ELSE [ip |-> o.ip, err |-> NilError, exchanged |-> TRUE]

ZeroAnswer == [Name |-> "", Address |-> "", IP |-> <<>>, Error |-> NilError]

\* The goroutine's answer for name server d from ARecords' results.
MakeAnswerMut(d, ip, e) ==
    IF e # NilError
    THEN [Name |-> d.Name, Address |-> d.Address, IP |-> <<>>, Error |-> e]
    ELSE [Name |-> d.Name, Address |-> d.Address, IP |-> ip, Error |-> NilError]
MakeAnswer(d, ip, e) ==
    IF e # NilError
    THEN [Name |-> d.Name, Address |-> d.Address, IP |-> <<>>, Error |-> e]
    ELSE IF Len(ip) = 0
    THEN [Name |-> d.Name, Address |-> d.Address, IP |-> <<>>,
          Error |-> NewError("No result")]
    ELSE [Name |-> d.Name, Address |-> d.Address, IP |-> ip, Error |-> NilError]

\* answers[n] = answer
StoreAnswerMut(ans, n, answer) == [ans EXCEPT ![Len(ans) + 1 - n] = answer]
StoreAnswer(ans, n, answer) == [ans EXCEPT ![n] = answer]

\* wg.Wait() returns when the counter is zero.
WaitReturnsMut(counter) == TRUE
WaitReturns(counter) == counter = 0

\* query is entered: answers := make(Answers, len(dns)).
QueryEnter(dns, domain, net) ==
    /\ call' = [state |-> "spawning", dns |-> dns, domain |-> domain, net |-> net, j |-> 0]
    /\ wg' = 0
    /\ tpc' = [n \in 1..Len(dns) |-> "unspawned"]
    /\ answers' = [n \in 1..Len(dns) |-> ZeroAnswer]
    /\ exchanges' = {}
    /\ result' = <<>>

\* One turn of query's loop: wg.Add(1); go func(n, d) {...}(j, i).
QuerySpawn ==
    /\ call.state = "spawning"
    /\ call.j < Len(call.dns)
    /\ call' = [call EXCEPT !.j = call.j + 1]
    /\ wg' = wg + 1
    /\ tpc' = [tpc EXCEPT ![call.j + 1] = "running"]
    /\ UNCHANGED <<mainVars, errVars, answers, exchanges, result>>

\* Goroutine n: ARecords(domain, d.Address, 53, net, 3), the answer made of
\* its results, answers[n] = answer.
TaskExchange(n) ==
    /\ tpc[n] = "running"
    /\ \E o \in ExchangeOutcomes :
          LET r == ARecords(call.net, o)
          IN  /\ answers' = StoreAnswer(answers, n, MakeAnswer(call.dns[n], r.ip, r.err))
              /\ exchanges' = IF r.exchanged
                               THEN exchanges \cup {[n |-> n, o |-> o]}
                               ELSE exchanges
    /\ tpc' = [tpc EXCEPT ![n] = "stored"]
    /\ UNCHANGED <<mainVars, errVars, call, wg, result>>

\* Goroutine n: the deferred wg.Done().
TaskDone(n) ==
    /\ tpc[n] = "stored"
    /\ wg' = wg - 1
    /\ tpc' = [tpc EXCEPT ![n] = "done"]
    /\ UNCHANGED <<mainVars, errVars, call, answers, exchanges, result>>

\* The loop is over, wg.Wait() returns and query returns answers.
QueryReturn ==
    /\ call.state = "spawning"
    /\ call.j = Len(call.dns)
    /\ WaitReturns(wg)
    /\ call' = [call EXCEPT !.state = "returned"]
    /\ result' = answers
    /\ UNCHANGED <<errVars, wg, tpc, answers, exchanges>>

\* query called on its own (no caller takes the result up).
QueryReturnAlone == QueryReturn /\ UNCHANGED mainVars

Nets == {"tcp", "udp", "icmp"}
Domains == {"www.example.com", "nosuch.invalid"}

InitQuery ==
    /\ InitIdleMain
    /\ InitIdleErr
    /\ \E dns \in Confs, domain \in Domains, net \in Nets :
          /\ call = [state |-> "spawning", dns |-> dns, domain |-> domain, net |-> net, j |-> 0]
          /\ tpc = [n \in 1..Len(dns) |-> "unspawned"]
          /\ answers = [n \in 1..Len(dns) |-> ZeroAnswer]
    /\ wg = 0
    /\ exchanges = {}
    /\ result = <<>>

NextQuery ==
    \/ QuerySpawn
    \/ \E n \in 1..Len(tpc) : TaskExchange(n)
    \/ \E n \in 1..Len(tpc) : TaskDone(n)
    \/ QueryReturnAlone

SpecQuery == InitQuery /\ [][NextQuery]_vars

(***************************************************************************)
(* The aggregation and the three output modes.  A line of output is the    *)
(* sequence of the strings the Printf or Println calls wrote before its    *)
(* newline; the line's text is their concatenation.                        *)
(***************************************************************************)
CellWidth == 17         \* the width of "%-17.16s" and "%-17s"
NamePrecision == 16     \* the precision of "%-17.16s"

Range(q) == { q[k] : k \in 1..Len(q) }

\* The keys of allIP's map i once its first loop is over.
MapKeys(a) == UNION { Range(a[n].IP) : n \in 1..Len(a) }

\* The orders in which "for key, _ := range i" may give the keys of a map.
Enumerations(S) == { q \in [1..Cardinality(S) -> S] : Range(q) = S }

RECURSIVE Insert(_, _)
Insert(x, sorted) ==
    IF sorted = <<>> THEN <<x>>
    ELSE IF StrLess(sorted[1], x) THEN <<sorted[1]>> \o Insert(x, Tail(sorted))
    ELSE <<x>> \o sorted

\* sort.Strings
RECURSIVE SortStrings(_)
SortStrings(q) == IF q = <<>> THEN <<>> ELSE Insert(q[1], SortStrings(Tail(q)))

\* allIP, the map's keys being ranged over in the order keys.
allIPMut(keys) == keys
allIP(keys) == SortStrings(keys)

\* in(ip, ips)
in(ip, ips) == \E k \in 1..Len(ips) : ips[k] = ip

\* The index of row j, column i in output's slice ip of n columns.
CellIndexMut(j, n, i) == j + i
CellIndex(j, n, i) == j * n + i

\* output's inner loop over j for the error-free item of column i; the
\* slices are indexed from 0 in the code and from 1 here.
RECURSIVE FillColumn(_, _, _, _, _, _)
FillColumn(ip, item, allip, n, i, j) ==
    IF j >= Len(allip) THEN ip
    ELSE FillColumn(IF in(allip[j + 1], item.IP)
                    THEN [ip EXCEPT ![CellIndex(j, n, i) + 1] = allip[j + 1]]
                    ELSE ip,
                    item, allip, n, i, j + 1)

\* output's loop "Fill head and ip", for the slice ip, from item i on.
RECURSIVE FillIP(_, _, _, _)
FillIP(ip, a, allip, i) ==
    IF i >= Len(a) THEN ip
    ELSE FillIP(IF a[i + 1].Error = NilError
                THEN FillColumn(ip, a[i + 1], allip, Len(a), i, 0)
                ELSE [ip EXCEPT ![i + 1] = errToString(a[i + 1].Error)],
                a, allip, i + 1)

\* The slice head: the names, then the addresses.
Head2(a) == [k \in 1..(2 * Len(a)) |->
                IF k <= Len(a) THEN a[k].Name ELSE a[k - Len(a)].Address]

\* The slice ip once filled.
Body(a, allip) ==
    LET resultNum == IF Len(allip) = 0 THEN 1 ELSE Len(allip)
    IN  FillIP([k \in 1..(Len(a) * resultNum) |-> "-"], a, allip, 0)

\* A printing loop of output: each item under the format, a newline after
\* every n items.
PrintCells(items, n, prec) ==
    [r \in 1..(Len(items) \div n) |->
        [c \in 1..n |-> FmtLeft(items[(r - 1) * n + c], CellWidth, prec)]]

\* What output writes, allip being a.allIP().
output(a, allip) ==
    PrintCells(Head2(a), Len(a), NamePrecision)
        \o << <<Repeat("-", CellWidth * Len(a))>> >>
        \o PrintCells(Body(a, allip), Len(a), -1)

\* What outputNormal writes.
outputNormal(allip) == [k \in 1..Len(allip) |-> <<allip[k]>>]

\* json.Marshal of a string that holds no character JSON escapes.
JsonString(str) == "\"" \o str \o "\""

RECURSIVE JsonList(_)
JsonList(texts) ==
    IF texts = <<>> THEN ""
    ELSE IF Len(texts) = 1 THEN texts[1]
    ELSE texts[1] \o "," \o JsonList(Tail(texts))

\* json.Marshal of a []string; a nil slice is null.
JsonStrings(q) ==
    IF q = <<>> THEN "null"
    ELSE "[" \o JsonList([k \in 1..Len(q) |-> JsonString(q[k])]) \o "]"

\* The AnswerJson that outputJson makes of an Answer.
AnswerJsonMut(item) ==
    [Name |-> item.Name, Address |-> item.Address, IP |-> item.IP,
     Error |-> errToString(item.Error)]
AnswerJson(item) ==
    [Name |-> item.Name, Address |-> item.Address, IP |-> item.IP,
     Error |-> IF item.Error # NilError THEN ErrorText(item.Error) ELSE ""]

\* json.Marshal of an AnswerJson.
JsonAnswer(aj) ==
    "{" \o JsonString("Name") \o ":" \o JsonString(aj.Name)
        \o "," \o JsonString("Address") \o ":" \o JsonString(aj.Address)
        \o "," \o JsonString("IP") \o ":" \o JsonStrings(aj.IP)
        \o "," \o JsonString("Error") \o ":" \o JsonString(aj.Error) \o "}"

\* What outputJson writes.
outputJson(a) ==
    << << "[" \o JsonList([k \in 1..Len(a) |-> JsonAnswer(AnswerJson(a[k]))]) \o "]" >> >>

\* json.Marshal of a DnsAddrs.
JsonConf(c) ==
    "[" \o JsonList([k \in 1..Len(c) |->
            "{" \o JsonString("Name") \o ":" \o JsonString(c[k].Name)
                \o "," \o JsonString("Address") \o ":" \o JsonString(c[k].Address) \o "}"])
        \o "]"

(***************************************************************************)
(* Configuration loading.                                                  *)
(***************************************************************************)
\* What readConfig may find at a path: no file, a path os.Stat fails on for
\* another reason, a directory, a file ioutil.ReadFile fails on, or a file
\* that json.Unmarshal leaves conf with the list content after (<<>> when
\* the file holds no name server list).
FileStates ==
    { [kind |-> k, content |-> <<>>] : k \in {"notexist", "staterr", "dir", "unreadable"} }
        \cup { [kind |-> "file", content |-> c] : c \in {<<>>} \cup Confs }

ReadConfigError(path, errmsg, exit) == [Path |-> path, Errmsg |-> errmsg, Exit |-> exit]

\* (*ReadConfigError).Error
ReadConfigErrorText(e) ==
    "Configuration file '" \o e.Path \o "' load error: " \o e.Errmsg

\* readConfig(file) where the file is in state st: conf, the error (<<>> or
\* <<e>>), and whether the call panics (stat.IsDir() on the nil stat that
\* os.Stat returns with an error that is not "not exist").
readConfig(file, st) ==
    IF st.kind = "notexist"
    THEN [conf |-> <<>>, panic |-> FALSE,
          err |-> <<ReadConfigError(file, "file does not exists", FALSE)>>]
    ELSE IF st.kind = "staterr"
    THEN [conf |-> <<>>, panic |-> TRUE, err |-> <<>>]
    ELSE IF st.kind = "dir"
    THEN [conf |-> <<>>, panic |-> FALSE,
          err |-> <<ReadConfigError(file, "file is directory", TRUE)>>]
    ELSE IF st.kind = "unreadable"
    THEN [conf |-> <<>>, panic |-> FALSE,
          err |-> <<ReadConfigError(file, "read " \o file \o ": permission denied", TRUE)>>]
    ELSE IF Len(st.content) = 0
    THEN [conf |-> st.content, panic |-> FALSE,
          err |-> <<ReadConfigError(file,
                    "file format is not correct, use '-s' to see a sample configuration",
                    TRUE)>>]
    ELSE [conf |-> st.content, panic |-> FALSE, err |-> <<>>]

\* The paths getDefaultConfig searches, home being $HOME ("" when unset).
DefaultPaths(home) ==
    (IF home # "" THEN <<home \o "/.config/ipre.conf", home \o "/.ipre">> ELSE <<>>)
        \o <<"/etc/ipre.conf">>

\* getDefaultConfig's loop from path k on, fs[k] being the state of
\* paths[k]: conf, path, the error's text (<<>> or <<text>>), panic.
RECURSIVE SearchConfig(_, _, _)
SearchConfig(paths, fs, k) ==
    IF k > Len(paths)
    THEN [conf |-> <<>>, path |-> "", panic |-> FALSE,
          err |-> <<"Configuration file not found">>]
    ELSE LET r == readConfig(paths[k], fs[k])
         IN  IF r.panic
             THEN [conf |-> <<>>, path |-> paths[k], panic |-> TRUE, err |-> <<>>]
             ELSE IF r.err = <<>>
             THEN [conf |-> r.conf, path |-> paths[k], panic |-> FALSE, err |-> <<>>]
             ELSE IF r.err[1].Exit
             THEN [conf |-> r.conf, path |-> paths[k], panic |-> FALSE,
                   err |-> <<ReadConfigErrorText(r.err[1])>>]
             ELSE SearchConfig(paths, fs, k + 1)

getDefaultConfig(home, fs) == SearchConfig(DefaultPaths(home), fs, 1)

(***************************************************************************)
(* main.                                                                   *)
(***************************************************************************)
\* The format selector is one main accepts.
FormatOKMut(fmt) == TRUE
FormatOK(fmt) == ~(fmt # "std" /\ fmt # "json" /\ fmt # "ip")

Exit(code, out, errout) ==
    /\ pc' = "exited"
    /\ exitCode' = code
    /\ stdout' = stdout \o out
    /\ stderr' = stderr \o errout

\* -h, -s, -v: each prints and exits 0.  The help text and the sample
\* configuration stand as one line each.
MainInfo ==
    /\ pc = "info"
    /\ IF flags.help THEN Exit(0, << <<"IP resolver">> >>, <<>>)
       ELSE IF flags.sample THEN Exit(0, << <<"[">> >>, <<>>)
       ELSE IF flags.showver THEN Exit(0, << <<"IP resolver v0.1-13">> >>, <<>>)
       ELSE /\ pc' = "format"
            /\ UNCHANGED <<exitCode, stdout, stderr>>
    /\ UNCHANGED <<flags, format, conf, confpath, queryVars, errVars>>

\* The format selector: "" is std, anything but std, json, ip is fatal.
MainFormat ==
    /\ pc = "format"
    /\ IF format = ""
       THEN /\ format' = "std"
            /\ pc' = "config"
            /\ UNCHANGED <<exitCode, stdout, stderr>>
       ELSE IF ~FormatOK(format)
       THEN /\ Exit(1, <<>>, << <<"Format " \o format \o " is not correct, use '-h' for help">> >>)
            /\ UNCHANGED format
       ELSE /\ pc' = "config"
            /\ UNCHANGED <<format, exitCode, stdout, stderr>>
    /\ UNCHANGED <<flags, conf, confpath, queryVars, errVars>>

Homes == {"", "/root"}

\* The configuration is loaded: from the default paths, or from -l <file>.
\* A panic ends the process with status 2.
MainConfig ==
    /\ pc = "config"
    /\ IF flags.configfile = ""
       THEN \E home \in Homes :
            \E fs \in [1..Len(DefaultPaths(home)) -> FileStates] :
               LET r == getDefaultConfig(home, fs)
               IN  IF r.panic
                   THEN /\ Exit(2, <<>>, << <<"panic: runtime error: invalid memory address or nil pointer dereference">> >>)
                        /\ UNCHANGED <<conf, confpath>>
                   ELSE IF r.err # <<>>
                   THEN /\ Exit(1, <<>>, <<r.err>>)
                        /\ conf' = r.conf
                        /\ confpath' = r.path
                   ELSE /\ conf' = r.conf
                        /\ confpath' = r.path
                        /\ pc' = "printconf"
                        /\ UNCHANGED <<exitCode, stdout, stderr>>
       ELSE \E st \in FileStates :
               LET r == readConfig(flags.configfile, st)
               IN  IF r.panic
                   THEN /\ Exit(2, <<>>, << <<"panic: runtime error: invalid memory address or nil pointer dereference">> >>)
                        /\ UNCHANGED <<conf, confpath>>
                   ELSE IF r.err # <<>>
                   THEN /\ Exit(1, <<>>, << <<ReadConfigErrorText(r.err[1])>> >>)
                        /\ conf' = r.conf
                        /\ UNCHANGED confpath
                   ELSE /\ conf' = r.conf
                        /\ confpath' = flags.configfile
                        /\ pc' = "printconf"
                        /\ UNCHANGED <<exitCode, stdout, stderr>>
    /\ UNCHANGED <<flags, format, queryVars, errVars>>

\* -c: print the configuration's path and content, exit 0.
MainPrintConf ==
    /\ pc = "printconf"
    /\ IF flags.printconf
       THEN Exit(0, << <<confpath>>, <<JsonConf(conf)>> >>, <<>>)
       ELSE /\ pc' = "domain"
            /\ UNCHANGED <<exitCode, stdout, stderr>>
    /\ UNCHANGED <<flags, format, conf, confpath, queryVars, errVars>>

\* The domain argument is checked; then net is chosen and query is called.
MainDomain ==
    /\ pc = "domain"
    /\ IF Len(flags.args) = 0
       THEN /\ Exit(1, <<>>, << <<"Please input a domain for querying, use '-h' for help">> >>)
            /\ UNCHANGED queryVars
       ELSE /\ QueryEnter(conf, flags.args[1], IF flags.useTcp THEN "tcp" ELSE "udp")
            /\ pc' = "query"
            /\ UNCHANGED <<exitCode, stdout, stderr>>
    /\ UNCHANGED <<flags, format, conf, confpath, errVars>>

\* query returns into main's result.
QueryReturnMain ==
    /\ pc = "query"
    /\ QueryReturn
    /\ pc' = "output"
    /\ UNCHANGED <<flags, format, conf, confpath, exitCode, stdout, stderr>>

\* The result is written in the chosen format and main returns.
MainOutput ==
    /\ pc = "output"
    /\ \E keys \in Enumerations(MapKeys(result)) :
          Exit(0,
               IF format = "std" THEN output(result, allIP(keys))
               ELSE IF format = "json" THEN outputJson(result)
               ELSE IF format = "ip" THEN outputNormal(allIP(keys))
               ELSE <<>>,
               <<>>)
    /\ UNCHANGED <<flags, format, conf, confpath, queryVars, errVars>>

Formats == {"", "std", "json", "ip", "xml"}

Init ==
    /\ flags \in [help : BOOLEAN, sample : BOOLEAN, showver : BOOLEAN,
                  format : Formats, configfile : {"", "config.json"},
                  printconf : BOOLEAN, useTcp : BOOLEAN,
                  args : {<<>>, <<"www.example.com">>}]
    /\ pc = "info"
    /\ format = flags.format
    /\ conf = <<>>
    /\ confpath = ""
    /\ exitCode = -1
    /\ stdout = <<>>
    /\ stderr = <<>>
    /\ InitIdleQuery
    /\ InitIdleErr

Next ==
    \/ MainInfo
    \/ MainFormat
    \/ MainConfig
    \/ MainPrintConf
    \/ MainDomain
    \/ QuerySpawn
    \/ \E n \in 1..Len(tpc) : TaskExchange(n)
    \/ \E n \in 1..Len(tpc) : TaskDone(n)
    \/ QueryReturnMain
    \/ MainOutput

Spec == Init /\ [][Next]_vars

(***************************************************************************)
(* Properties.                                                             *)
(***************************************************************************)
Returned == call.state = "returned"

\* main wrote the result in format fmt and returned.
Printed(fmt) == pc = "exited" /\ Returned /\ format = fmt

\* The IP strings occurring in the ips list of at least one result.
UnionIPs(a) == { ip \in UNION { Range(a[n].IP) : n \in 1..Len(a) } : TRUE }

\* How many strings of U come before ip in string order.
Rank(ip, U) == Cardinality({ x \in U : StrLess(x, ip) })

Max(x, y) == IF x >= y THEN x ELSE y

\* chunk is text followed by spaces up to 17 characters.
IsCell(chunk, text) ==
    /\ Len(chunk) = 17
    /\ Len(text) <= 17
    /\ SubSeq(chunk, 1, Len(text)) = text
    /\ \A k \in (Len(text) + 1)..17 : CharAt(chunk, k) = " "

\* C1: when query returns, the ResultSet has one result per configured name
\* server and result i carries the name and address of name server i, under
\* every interleaving of the goroutines.
C1_Alignment ==
    Returned =>
        /\ Len(result) = Len(call.dns)
        /\ \A i \in 1..Len(call.dns) :
              /\ result[i].Name = call.dns[i].Name
              /\ result[i].Address = call.dns[i].Address

C1_Witness ==
    /\ Returned
    /\ Len(result) >= 2
    /\ result[1].Error # NilError
    /\ result[2].IP # <<>>

\* C2: query returns only after every goroutine has written its slot and is
\* done, so the returned ResultSet has no unwritten slot; before the return
\* the caller holds no result; and a goroutine that has not finished never
\* keeps another one from running.
C2_Barrier ==
    /\ Returned =>
          /\ Len(result) = Len(call.dns)
          /\ \A n \in 1..Len(call.dns) : tpc[n] = "done" /\ result[n] # ZeroAnswer
    /\ ~Returned => result = <<>>
    /\ \A n \in 1..Len(tpc) : tpc[n] = "running" => ENABLED TaskExchange(n)

C2_Witness ==
    /\ Returned
    /\ Len(result) >= 2
    /\ result[1].IP # <<>>
    /\ result[2].Error # NilError

\* C3: every returned result has either an error and no ips, or no error and
\* at least one ip; a lookup that came back with no error and no A record
\* gives the error "No result".
C3_OneOutcome ==
    Returned =>
        /\ \A i \in 1..Len(result) :
              \/ result[i].Error # NilError /\ result[i].IP = <<>>
              \/ result[i].Error = NilError /\ result[i].IP # <<>>
        /\ \A x \in exchanges :
              (x.o.err = NilError /\ x.o.ip = <<>>) =>
                  result[x.n].Error = <<"No result">>

C3_Witness ==
    /\ Returned
    /\ \E x \in exchanges :
          /\ x.o.err = NilError
          /\ x.o.ip = <<>>
          /\ result[x.n].Error = <<"No result">>

\* C4: in ip mode the lines written are the IP strings that occur in some
\* result's ips, each once, in strictly ascending string order; nothing is
\* written when no server returned an IP.
C4_UnionSorted ==
    Printed("ip") =>
        /\ \A k \in 1..Len(stdout) : Len(stdout[k]) = 1
        /\ { stdout[k][1] : k \in 1..Len(stdout) } = UnionIPs(result)
        /\ \A k \in 1..(Len(stdout) - 1) : StrLess(stdout[k][1], stdout[k + 1][1])
        /\ (\A n \in 1..Len(result) : result[n].IP = <<>>) => stdout = <<>>

C4_Witness ==
    /\ Printed("ip")
    /\ stdout = << <<"10.0.0.1">>, <<"10.0.0.10">>, <<"100.100.100.100">>, <<"9.9.9.9">> >>
    /\ result[1].IP = <<"10.0.0.10", "9.9.9.9">>
    /\ result[2].IP = <<"10.0.0.1", "100.100.100.100", "10.0.0.1">>

\* C5: in table mode the body cell of row j, column i is, for an error-free
\* server i, the j-th IP of the sorted union when server i returned it and
\* "-" otherwise, and for a server with an error, the short category of the
\* error at row 0 and "-" below; columns are in the configured order.
C5_BodyCells ==
    Printed("std") =>
        LET U == UnionIPs(result)
            rows == Max(1, Cardinality(U))
        IN  /\ Len(stdout) = 3 + rows
            /\ \A j \in 0..(rows - 1) : \A i \in 1..Len(result) :
                  /\ Len(stdout[4 + j]) = Len(result)
                  /\ IsCell(stdout[4 + j][i],
                        IF result[i].Error = NilError
                        THEN IF \E ip \in Range(result[i].IP) : Rank(ip, U) = j
                             THEN CHOOSE ip \in Range(result[i].IP) : Rank(ip, U) = j
                             ELSE "-"
                        ELSE IF j = 0 THEN errToString(result[i].Error) ELSE "-")

C5_Witness ==
    /\ Printed("std")
    /\ Len(result) >= 2
    /\ result[1].Error # NilError
    /\ result[2].IP = <<"10.0.0.10", "9.9.9.9">>
    /\ stdout[5][2] = "9.9.9.9          "

\* C6: the table has max(1, |union|) body rows, every header and body row
\* has N cells, every cell is 17 characters wide; with an empty union the
\* single body row carries each server's error label.
C6_TableShape ==
    Printed("std") =>
        LET U == UnionIPs(result)
            rows == Max(1, Cardinality(U))
            N == Len(result)
        IN  /\ Len(stdout) = 3 + rows
            /\ \A r \in (1..(3 + rows)) \ {3} :
                  /\ Len(stdout[r]) = N
                  /\ \A c \in 1..N : Len(stdout[r][c]) = 17
            /\ U = {} =>
                  \A c \in 1..N :
                      IsCell(stdout[4][c],
                             IF Contains(result[c].Error[1], "timeout")
                             THEN "Timeout"
                             ELSE IF Contains(result[c].Error[1], "refused")
                             THEN "Conn refused"
                             ELSE IF result[c].Error[1] = "No result"
                             THEN "No result"
                             ELSE "Connect error")

C6_Witness ==
    /\ Printed("std")
    /\ Len(result) >= 2
    /\ UnionIPs(result) = {}
    /\ Len(result[1].Name) > 17
    /\ Len(stdout) = 4

\* The JSON line of structured mode when record k carries the text
\* text[k] as its error.
JsonLine(a, text) ==
    "[" \o JsonList([k \in 1..Len(a) |->
            "{\"Name\":\"" \o a[k].Name \o "\",\"Address\":\"" \o a[k].Address
                \o "\",\"IP\":" \o JsonStrings(a[k].IP)
                \o ",\"Error\":\"" \o text[k] \o "\"}"])
        \o "]"

\* C7 (as the claim states it): in json mode the error text of each record
\* is the short category of the server's error, empty when there is none.
C7_Original ==
    Printed("json") =>
        stdout = << << JsonLine(result,
                         [k \in 1..Len(result) |-> errToString(result[k].Error)]) >> >>

\* C7 (amended): in json mode the error text of each record is the server's
\* error message in full, unchanged, and is empty when the server has no
\* error.
C7_FullMessage ==
    Printed("json") =>
        stdout = << << JsonLine(result,
                         [k \in 1..Len(result) |->
                             IF result[k].Error = NilError THEN ""
                             ELSE result[k].Error[1]]) >> >>

C7_Witness ==
    /\ Printed("json")
    /\ Len(result) >= 2
    /\ result[1].Error = <<"read udp 8.8.8.8:53: i/o timeout">>
    /\ result[2].Error = NilError

\* C8 (as the claim states it): a call of query with a transport mode that
\* is neither tcp nor udp is rejected; it never returns a ResultSet.
C8_Original == ~(call.net # "tcp" /\ call.net # "udp" /\ Returned)

\* C8 (amended): with a transport mode that is neither tcp nor udp no DNS
\* message is ever exchanged, and query still returns a ResultSet of length
\* N in which every result carries ARecords' error about net and no ips;
\* with any mode, the error of every exchange that failed is the error of
\* that server's result.
C8_InvalidNetAsData ==
    /\ (call.net # "tcp" /\ call.net # "udp") =>
          /\ exchanges = {}
          /\ Returned =>
                /\ Len(result) = Len(call.dns)
                /\ \A i \in 1..Len(result) :
                      /\ result[i].Error =
                            <<"The Parameter 'net' should only be 'tcp' or 'udp'.">>
                      /\ result[i].IP = <<>>
    /\ Returned =>
          \A x \in exchanges : x.o.err # NilError => result[x.n].Error = x.o.err

C8_Witness ==
    /\ call.net = "icmp"
    /\ Returned
    /\ Len(result) >= 2
    /\ exchanges = {}

\* The rule each fragment of Fragments falls under, and each rule's label.
FragRule == <<1, 1, 2, 3, 4, 5, 5, 6, 6>>
RuleLabel == <<"Timeout", "Conn refused", "NS invalid", "NS invalid", "No result",
               "Connect error">>

RECURSIVE MinRule(_)
MinRule(fs) ==
    IF fs = <<>> THEN 6
    ELSE LET m == MinRule(Tail(fs))
         IN  IF FragRule[fs[1]] < m THEN FragRule[fs[1]] ELSE m

\* C9: errToString gives the label of the earliest rule of the ordered list
\* whose phrase is in the message, whatever the letters' case and whatever
\* other phrases the message holds, and "Connect error" when none is.
C9_FirstRuleWins ==
    (label # <<>> /\ err # NilError) => label[1] = RuleLabel[MinRule(frags)]

C9_Witness ==
    /\ label = <<"Timeout">>
    /\ frags = <<4, 2>>
    /\ Contains(err[1], "No service is operating")
    /\ Contains(err[1], "TIMEOUT")

\* C10: a run that reports an error on standard error exits with a non-zero
\* status without having called query; a format selector that is not std,
\* json or ip keeps the configuration from being loaded; query is called
\* only with a domain argument, a valid format and a loaded configuration.
C10_NoQueryOnError ==
    /\ (pc = "exited" /\ stderr # <<>>) =>
          /\ exitCode # 0
          /\ call.state = "idle"
          /\ exchanges = {}
    /\ flags.format \notin {"", "std", "json", "ip"} =>
          /\ conf = <<>>
          /\ confpath = ""
          /\ call.state = "idle"
          /\ pc = "exited" => exitCode # 0 \/ flags.help \/ flags.sample \/ flags.showver
    /\ call.state # "idle" =>
          /\ Len(flags.args) > 0
          /\ format \in {"std", "json", "ip"}
          /\ conf # <<>>

C10_Witness ==
    /\ pc = "exited"
    /\ exitCode = 1
    /\ stderr = << <<"Please input a domain for querying, use '-h' for help">> >>
    /\ conf # <<>>
    /\ call.state = "idle"

=============================================================================
